---- MODULE Spec2Model ----
(***************************************************************************)
(* Anima - AI avatar chat front end (MadrasLe/Avatar).                     *)
(*                                                                         *)
(* The repository holds two variants of the same script:                   *)
(*   "scale"   = src/app.js: one shared audio graph, async promise         *)
(*               executor, the avatar is zoomed with the intensity;        *)
(*   "overlay" = src/unnamed/part_000: one audio graph per call, plain     *)
(*               executor, a mouth ellipse is painted over the avatar.     *)
(* variant is fixed by Init, and every definition follows the code of the  *)
(* variant it is evaluated in.                                             *)
(*                                                                         *)
(* Numbers: the code computes with doubles.  The model keeps intensities   *)
(* and canvas target coordinates in thousandths (fixed point), so the cap  *)
(* 2.0 is 2000; the inputs are chosen so that every division is exact.     *)
(*                                                                         *)
(* The audio element is the platform's: after audioPlayer.play() it either *)
(* rejects at once, or dispatches 'play', then buffers, plays and ends, or *)
(* fails with 'error'; assigning a new src aborts a pending play().        *)
(***************************************************************************)
EXTENDS Integers, Sequences, FiniteSets, TLC

\* ------------------------------------------------------------------------
\* Bounds of the model
\* ------------------------------------------------------------------------
MaxCalls == 2
MaxUploads == 2
MaxProbe == 3
MaxSubmits == 11
MaxChats == 2

\* ------------------------------------------------------------------------
\* Program constants
\* ------------------------------------------------------------------------
Size == 200
BandBins == 20
EnergyDivisor == 50
Cap == 2
MaxEnergy == 255
FrequencyBinCount == 128
HistoryLimit == 20

Milli(x) == x * 1000

Min(a, b) == IF a < b THEN a ELSE b
Max(a, b) == IF a > b THEN a ELSE b

Variants == {"scale", "overlay"}
Sessions == 1..MaxCalls
Uploads == 1..MaxUploads
Submissions == 1..MaxSubmits

NoImage == 0
NoDetection == [img |-> 0]

\* The detector's answers for an image: a face box with the four mouth
\* landmarks drawAvatar reads, or no face.
FaceA == [box |-> [x |-> 10, y |-> 30, width |-> 50, height |-> 50],
          mouth |-> [m0 |-> [x |-> 20, y |-> 60], m6 |-> [x |-> 50, y |-> 60],
                     m14 |-> [x |-> 30, y |-> 62], m18 |-> [x |-> 40, y |-> 64]]]
FaceB == [box |-> [x |-> 60, y |-> 40, width |-> 20, height |-> 20],
          mouth |-> [m0 |-> [x |-> 64, y |-> 54], m6 |-> [x |-> 74, y |-> 54],
                     m14 |-> [x |-> 66, y |-> 55], m18 |-> [x |-> 72, y |-> 55]]]
Faces == {FaceA, FaceB}
\* The face in the photo of upload u, when the detector finds it.
FaceOf(u) == IF u % 2 = 1 THEN FaceA ELSE FaceB
NoFace == [box |-> [x |-> 0, y |-> 0, width |-> 0, height |-> 0]]

Detection(u, face) == [img |-> u, box |-> face.box, mouth |-> face.mouth]

\* ------------------------------------------------------------------------
\* The canvas and its 2D context
\* ------------------------------------------------------------------------
\* A canvas is its size, the paint operations since it was last cleared, and
\* the drawing state of its context (globalAlpha in percent, fillStyle, the
\* save() stack).
InitCanvas ==
    [width |-> 300, height |-> 150, ops |-> << >>,
     alpha |-> 100, fill |-> "#000000", saved |-> << >>]

\* Assigning canvas.width or canvas.height clears the bitmap and resets the
\* context state.
SetWidth(cv, w) ==
    [cv EXCEPT !.width = w, !.ops = << >>, !.alpha = 100,
               !.fill = "#000000", !.saved = << >>]
SetHeight(cv, h) ==
    [cv EXCEPT !.height = h, !.ops = << >>, !.alpha = 100,
               !.fill = "#000000", !.saved = << >>]
CtxSave(cv) ==
    [cv EXCEPT !.saved = Append(@, [alpha |-> cv.alpha, fill |-> cv.fill])]
CtxRestore(cv) ==
    IF cv.saved = << >> THEN cv
    ELSE [cv EXCEPT !.alpha = cv.saved[Len(cv.saved)].alpha,
                    !.fill = cv.saved[Len(cv.saved)].fill,
                    !.saved = SubSeq(cv.saved, 1, Len(cv.saved) - 1)]
CtxDrawImage(cv, img, sx, sy, sw, sh, dx, dy, dw, dh) ==
    [cv EXCEPT !.ops = Append(@,
        [op |-> "image", img |-> img, sx |-> sx, sy |-> sy, sw |-> sw, sh |-> sh,
         dx |-> dx, dy |-> dy, dw |-> dw, dh |-> dh, alpha |-> cv.alpha])]
CtxFillEllipse(cv, cx, cy, rx, ry) ==
    [cv EXCEPT !.ops = Append(@,
        [op |-> "ellipse", cx |-> cx, cy |-> cy, rx |-> rx, ry |-> ry,
         alpha |-> cv.alpha, fill |-> cv.fill])]

\* ------------------------------------------------------------------------
\* drawAvatar
\* ------------------------------------------------------------------------
\* The crop around the face box: padding is half the box width, negative
\* origins clamp to 0.
Crop(det) ==
    LET box == det.box
        padding == box.width \div 2
    IN [sx |-> Max(0, box.x - padding), sy |-> Max(0, box.y - padding),
        sw |-> box.width + padding * 2, sh |-> box.height + padding * 2]

\* src/app.js: the whole crop is drawn, zoomed by scale = 1 + intensity * 0.02
\* around the canvas centre.  intensity, offset and the target size are in
\* thousandths.
PaintScale(cv, img, det, intensity) ==
    LET c == Crop(det)
        scale == Milli(1) + (intensity * 2) \div 100
        offset == (Size * (scale - Milli(1))) \div 2
        drawn == CtxDrawImage(CtxSave(cv), img, c.sx, c.sy, c.sw, c.sh,
                              0 - offset, 0 - offset, Size * scale, Size * scale)
    IN CtxRestore(drawn)

\* src/unnamed/part_000: the crop is drawn 1:1 and, when mouthOpen > 0, a dark
\* ellipse is painted over the mouth; its vertical radius is mouthOpen * 10.
PaintOverlay(cv, img, det, mouthOpen) ==
    LET c == Crop(det)
        base == CtxDrawImage(cv, img, c.sx, c.sy, c.sw, c.sh,
                             0, 0, Milli(Size), Milli(Size))
        mouth == det.mouth
        scaleX == Milli(Size) \div c.sw
        scaleY == Milli(Size) \div c.sh
        mouthCenterX == ((mouth.m14.x + mouth.m18.x) \div 2 - c.sx) * scaleX
        mouthCenterY == ((mouth.m14.y + mouth.m18.y) \div 2 - c.sy) * scaleY
        mouthWidth == (mouth.m6.x - mouth.m0.x) * scaleX
        styled == [CtxSave(base) EXCEPT !.alpha = 70, !.fill = "#1a0a0a"]
        filled == CtxFillEllipse(styled, mouthCenterX, mouthCenterY,
                                 (mouthWidth * 4) \div 10, mouthOpen * 10)
    IN IF mouthOpen > 0 THEN CtxRestore(filled) ELSE base

Paint(v, cv, img, det, intensity) ==
    IF v = "scale" THEN PaintScale(cv, img, det, intensity)
    ELSE PaintOverlay(cv, img, det, intensity)

\* drawAvatar with its guard below the resizing of the canvas.
DrawAvatarLateGuard(v, cv, img, det, intensity) ==
    IF img = NoImage \/ det = NoDetection THEN SetHeight(SetWidth(cv, Size), Size)
    ELSE Paint(v, SetHeight(SetWidth(cv, Size), Size), img, det, intensity)

\* drawAvatar painting over the frame before: the canvas keeps its bitmap.
DrawAvatarNoClear(v, cv, img, det, intensity) ==
    IF img = NoImage \/ det = NoDetection THEN cv
    ELSE Paint(v, [cv EXCEPT !.width = Size, !.height = Size], img, det, intensity)

\* drawAvatar(speakingIntensity): returns the canvas it leaves behind.
DrawAvatar(v, cv, img, det, intensity) ==
    IF img = NoImage \/ det = NoDetection THEN cv
    ELSE Paint(v, SetHeight(SetWidth(cv, Size), Size), img, det, intensity)

\* ------------------------------------------------------------------------
\* animateLipSync: from the analyser's bins to the intensity
\* ------------------------------------------------------------------------
\* The intensity without Math.min.
SpeakingIntensityUnclamped(sum) == Milli(sum) \div (BandBins * EnergyDivisor)

\* The intensity averaged over all frequencyBinCount bins of dataArray.
SpeakingIntensityAllBins(sum) ==
    Min(Milli(sum) \div (FrequencyBinCount * EnergyDivisor), Milli(Cap))

\* sum is the sum of the first BandBins bytes of dataArray; the result is
\* Math.min(sum / 20 / 50, 2) in thousandths.
SpeakingIntensity(sum) ==
    Min(Milli(sum) \div (BandBins * EnergyDivisor), Milli(Cap))

\* The sums of the first BandBins bins a frame may read: silence, speech
\* below the cap, and all bins saturated.
Energies == {0, 1500, BandBins * MaxEnergy}

\* ------------------------------------------------------------------------
\* State
\* ------------------------------------------------------------------------
VARIABLES
    variant,        \* which of the two scripts runs
    probePrev,      \* RenderSpec: the intensity of the call of drawAvatar before the last
    modelState,     \* loadFaceApiModels: "loading", "loaded" (isModelLoaded) or "failed"
    up,             \* per upload: where its change handler stands
    avatarImage,    \* NoImage or the image of an upload
    faceDetection,  \* NoDetection or a detection
    canvas,         \* avatarCanvas
    lastDraw,       \* the last call of drawAvatar: who called it, with what band sum and intensity
    speaking,       \* avatarContainer has the class 'speaking'
    pc,             \* per play() call: "new", "awaitResume", "started", "threw"
    promise,        \* per play() call: the promise it returned
    url,            \* per play() call: the object URL it created
    playPromise,    \* per play() call: the promise of audioPlayer.play()
    rafPending,     \* per play() call: the frame callback named by its animationId is pending
    completions,    \* per play() call: the handlers that have run its completion
    handlers,       \* the play() call whose closures are audioPlayer.onplay/onended/onerror
    elSrc,          \* the play() call whose URL is audioPlayer.src
    elState,        \* the audio element
    ctxState,       \* the audioContext (shared, or of the last call): "none", "suspended", "running"
    graph,          \* audio contexts, analysers and media-element sources created
    chatHistory,    \* the {role, content} entries sent to the backend as history
    chatMessages,   \* the children of the chatMessages element, in document order
    inputEnabled,   \* messageInput and sendButton are not disabled
    sub,            \* per chat submission: where its submit handler stands
    played          \* per chat submission: the play() call it awaits, 0 if none

vars == << variant, probePrev, modelState, up, avatarImage, faceDetection, canvas, lastDraw,
           speaking, pc, promise, url, playPromise, rafPending,
           completions, handlers, elSrc, elState, ctxState, graph,
           chatHistory, chatMessages, inputEnabled, sub, played >>

avatarVars == << modelState, up, avatarImage, faceDetection >>
drawVars == << canvas, lastDraw >>
callVars == << pc, promise, url >>
fixedVars == << variant, probePrev >>
elemVars == << handlers, elSrc, elState >>
ctxVars == << ctxState, graph >>
chatVars == << chatHistory, chatMessages, inputEnabled, sub, played >>
playVars == << speaking, callVars, playPromise, rafPending, completions, elemVars,
               ctxVars >>

isModelLoaded == modelState = "loaded"

NoDraw == [src |-> "none", sum |-> 0, intensity |-> 0]

Init ==
    /\ variant \in Variants
    /\ probePrev = 0
    /\ modelState = "loading"
    /\ up = [u \in Uploads |-> "idle"]
    /\ avatarImage = NoImage
    /\ faceDetection = NoDetection
    /\ canvas = InitCanvas
    /\ lastDraw = NoDraw
    /\ speaking = FALSE
    /\ pc = [s \in Sessions |-> "new"]
    /\ promise = [s \in Sessions |-> "none"]
    /\ url = [s \in Sessions |-> "none"]
    /\ playPromise = [s \in Sessions |-> "none"]
    /\ rafPending = [s \in Sessions |-> FALSE]
    /\ completions = [s \in Sessions |-> {}]
    /\ handlers = 0
    /\ elSrc = 0
    /\ elState = "empty"
    /\ ctxState = "none"
    /\ graph = [contexts |-> 0, analysers |-> 0, sources |-> 0]
    /\ chatHistory = << >>
    /\ chatMessages = << >>
    /\ inputEnabled = TRUE
    /\ sub = [m \in Submissions |-> "idle"]
    /\ played = [m \in Submissions |-> 0]

\* The reaction of a rejected audioPlayer.play() is a microtask: it runs before
\* the event loop takes its next task.
NoMicrotask == \A s \in Sessions : playPromise[s] # "rejected"

\* drawAvatar(intensity) called by src: an upload, a frame of the loop (which
\* read the band sum), onended.
Draw(src, sum, intensity) ==
    /\ canvas' = DrawAvatar(variant, canvas, avatarImage, faceDetection, intensity)
    /\ lastDraw' = [src |-> src, sum |-> sum, intensity |-> intensity]

\* ------------------------------------------------------------------------
\* Avatar handling
\* ------------------------------------------------------------------------
LoadFaceApiModels(ok) ==
    /\ NoMicrotask
    /\ modelState = "loading"
    /\ modelState' = IF ok THEN "loaded" ELSE "failed"
    /\ UNCHANGED << fixedVars, chatVars, up, avatarImage, faceDetection, drawVars, speaking,
                    callVars, playPromise, rafPending, completions, elemVars, ctxVars >>

\* avatarInput 'change' with a file: up to the await of the image load.
UploadChange(u) ==
    /\ NoMicrotask
    /\ up[u] = "idle"
    /\ \A v \in Uploads : v < u => up[v] # "idle"
    /\ up' = [up EXCEPT ![u] = IF isModelLoaded THEN "loading" ELSE "notReady"]
    /\ UNCHANGED << fixedVars, chatVars, modelState, avatarImage, faceDetection, drawVars,
                    speaking, callVars, playPromise, rafPending, completions,
                    elemVars, ctxVars >>

\* img.onload / img.onerror settle the awaited promise.
ImageSettled(u, loaded) ==
    /\ NoMicrotask
    /\ up[u] = "loading"
    /\ up' = [up EXCEPT ![u] = IF loaded THEN "detecting" ELSE "loadError"]
    /\ UNCHANGED << fixedVars, chatVars, modelState, avatarImage, faceDetection, drawVars,
                    speaking, callVars, playPromise, rafPending, completions,
                    elemVars, ctxVars >>

\* The handler with its two assignments above `if (!detection)`.
FaceDetectedEager(u, face) ==
    /\ NoMicrotask
    /\ up[u] = "detecting"
    /\ avatarImage' = u
    /\ IF face = NoFace
       THEN /\ up' = [up EXCEPT ![u] = "noFace"]
            /\ faceDetection' = NoDetection
            /\ UNCHANGED drawVars
       ELSE /\ up' = [up EXCEPT ![u] = "done"]
            /\ faceDetection' = Detection(u, face)
            /\ canvas' = DrawAvatar(variant, canvas, avatarImage', faceDetection', 0)
            /\ lastDraw' = [src |-> "upload", sum |-> 0, intensity |-> 0]
    /\ UNCHANGED << fixedVars, chatVars, modelState, speaking, callVars, playPromise, rafPending,
                    completions, elemVars, ctxVars >>

\* The detector answers: from `if (!detection)` to the end of the handler.
FaceDetected(u, face) ==
    /\ NoMicrotask
    /\ up[u] = "detecting"
    /\ IF face = NoFace
       THEN /\ up' = [up EXCEPT ![u] = "noFace"]
            /\ UNCHANGED << avatarImage, faceDetection, drawVars >>
       ELSE /\ up' = [up EXCEPT ![u] = "done"]
            /\ faceDetection' = Detection(u, face)
            /\ avatarImage' = u
            /\ canvas' = DrawAvatar(variant, canvas, avatarImage', faceDetection', 0)
            /\ lastDraw' = [src |-> "upload", sum |-> 0, intensity |-> 0]
    /\ UNCHANGED << fixedVars, chatVars, modelState, speaking, callVars, playPromise, rafPending,
                    completions, elemVars, ctxVars >>

\* ------------------------------------------------------------------------
\* Audio and lip sync: playAudioWithLipSync
\* ------------------------------------------------------------------------
\* resolve(): settles the call's promise unless it is settled already.
Resolve(pr, s) == IF pr[s] = "pending" THEN [pr EXCEPT ![s] = "resolved"] ELSE pr

\* Assigning audioPlayer.src starts the element's load algorithm, which rejects
\* the pending promise of an earlier audioPlayer.play() (AbortError).
AbortPending(pp) ==
    [r \in Sessions |-> IF pp[r] = "pending" THEN "rejected" ELSE pp[r]]

\* From the assignment of the handlers to the end of the executor:
\* classList.add('speaking'), a fresh animationId, onplay/onended/onerror, and
\* audioPlayer.play(), which the platform allows (the 'play' event is queued)
\* or rejects at once (NotAllowedError).
StartPlayback(s, allowed) ==
    /\ speaking' = TRUE
    /\ handlers' = s
    /\ elSrc' = s
    /\ elState' = IF allowed THEN "starting" ELSE "blocked"
    /\ playPromise' = [AbortPending(playPromise) EXCEPT
                          ![s] = IF allowed THEN "pending" ELSE "rejected"]
    /\ pc' = [pc EXCEPT ![s] = "started"]
    /\ UNCHANGED << rafPending, completions >>

\* src/app.js: play() up to the end of the executor or to `await resume()`.
\* A malformed payload makes atob throw inside the async executor: the
\* executor's own promise rejects and the returned promise is never settled.
PlayScale(s, valid, ctxNew, allowed) ==
    /\ variant = "scale"
    /\ promise' = [promise EXCEPT ![s] = "pending"]
    /\ IF ~valid
       THEN /\ pc' = [pc EXCEPT ![s] = "threw"]
            /\ UNCHANGED << url, playPromise, rafPending, completions, elemVars,
                            ctxVars, speaking >>
       ELSE /\ url' = [url EXCEPT ![s] = "live"]
            /\ IF ctxState = "none"
               THEN /\ ctxState' = ctxNew
                    /\ graph' = [contexts |-> 1, analysers |-> 1, sources |-> 1]
               ELSE UNCHANGED ctxVars
            /\ IF ctxState' = "suspended"
               THEN /\ pc' = [pc EXCEPT ![s] = "awaitResume"]
                    /\ UNCHANGED << playPromise, rafPending, completions, elemVars,
                                    speaking >>
               ELSE StartPlayback(s, allowed)

\* src/unnamed/part_000: the whole executor.  A throw (atob on a malformed
\* payload, createMediaElementSource on an element that already feeds a
\* source node) rejects the returned promise.  The context made by the call
\* starts running or suspended, as the platform's autoplay policy decides, and
\* the code never resumes it.
PlayOverlay(s, valid, ctxNew, attachOk, allowed) ==
    /\ variant = "overlay"
    /\ IF ~valid
       THEN /\ promise' = [promise EXCEPT ![s] = "rejected"]
            /\ pc' = [pc EXCEPT ![s] = "threw"]
            /\ UNCHANGED << url, playPromise, rafPending, completions, elemVars,
                            ctxVars, speaking >>
       ELSE /\ url' = [url EXCEPT ![s] = "live"]
            /\ ctxState' = ctxNew
            /\ IF graph.sources > 0 /\ ~attachOk
               THEN /\ promise' = [promise EXCEPT ![s] = "rejected"]
                    /\ pc' = [pc EXCEPT ![s] = "threw"]
                    /\ graph' = [graph EXCEPT !.contexts = @ + 1, !.analysers = @ + 1]
                    /\ elSrc' = s
                    /\ elState' = "blocked"
                    /\ playPromise' = AbortPending(playPromise)
                    /\ UNCHANGED << rafPending, completions, handlers, speaking >>
               ELSE /\ promise' = [promise EXCEPT ![s] = "pending"]
                    /\ graph' = [contexts |-> graph.contexts + 1,
                                 analysers |-> graph.analysers + 1,
                                 sources |-> graph.sources + 1]
                    /\ StartPlayback(s, allowed)

\* playAudioWithLipSync(base64Audio), the s-th call of the page.
PlayAudioWithLipSync(s) ==
    /\ pc[s] = "new"
    /\ \A r \in Sessions : r < s => pc[r] # "new"
    /\ \E valid, allowed, attachOk \in BOOLEAN, ctxNew \in {"suspended", "running"} :
          \/ PlayScale(s, valid, ctxNew, allowed)
          \/ PlayOverlay(s, valid, ctxNew, attachOk, allowed)
    /\ UNCHANGED << avatarVars, drawVars >>

\* A call of playAudioWithLipSync on its own, at any moment.
Play(s) ==
    /\ NoMicrotask
    /\ PlayAudioWithLipSync(s)
    /\ UNCHANGED << fixedVars, chatVars >>

\* src/app.js: audioContext.resume() is done; the executor goes on after the
\* await.  The calls that wait resume in the order they called.
ResumeDone(s) ==
    /\ NoMicrotask
    /\ pc[s] = "awaitResume"
    /\ \A r \in Sessions : r < s => pc[r] # "awaitResume"
    /\ ctxState' = "running"
    /\ \E allowed \in BOOLEAN : StartPlayback(s, allowed)
    /\ UNCHANGED << fixedVars, chatVars, avatarVars, drawVars, promise, url, graph >>

\* animateLipSync requesting the next frame only while it hears something.
AnimateLipSyncStopsOnSilence(s, sum) ==
    /\ Draw("loop", sum, SpeakingIntensity(sum))
    /\ rafPending' = [rafPending EXCEPT ![s] = sum > 0]

\* animateLipSync of call s: sample, draw, request the next frame; the new
\* handle goes to animationId.
AnimateLipSync(s, sum) ==
    /\ Draw("loop", sum, SpeakingIntensity(sum))
    /\ rafPending' = [rafPending EXCEPT ![s] = TRUE]

\* audioPlayer.onended of call h.
OnEnded(h) ==
    /\ rafPending' = [rafPending EXCEPT ![h] = FALSE]
    /\ speaking' = FALSE
    /\ Draw("ended", 0, 0)
    /\ url' = IF variant = "scale" THEN [url EXCEPT ![h] = "revoked"] ELSE url
    /\ promise' = Resolve(promise, h)
    /\ completions' = [completions EXCEPT ![h] = @ \cup {"ended"}]

\* audioPlayer.onerror of call h.
OnError(h) ==
    /\ rafPending' = [rafPending EXCEPT ![h] = FALSE]
    /\ speaking' = FALSE
    /\ url' = IF variant = "scale" THEN [url EXCEPT ![h] = "revoked"] ELSE url
    /\ promise' = Resolve(promise, h)
    /\ completions' = [completions EXCEPT ![h] = @ \cup {"error"}]
    /\ UNCHANGED drawVars

\* The 'play' event of the play() request is dispatched: onplay runs.
PlayEvent ==
    /\ NoMicrotask
    /\ elState = "starting"
    /\ elState' = "buffering"
    /\ \E sum \in Energies : AnimateLipSync(handlers, sum)
    /\ UNCHANGED << fixedVars, chatVars, avatarVars, speaking, callVars, playPromise,
                    completions, handlers, elSrc, ctxVars >>

\* Enough data has arrived: the element plays and the promise of
\* audioPlayer.play() is fulfilled.
Playing ==
    /\ NoMicrotask
    /\ elState = "buffering"
    /\ elState' = "playing"
    /\ playPromise' = [playPromise EXCEPT ![elSrc] =
                          IF @ = "pending" THEN "fulfilled" ELSE @]
    /\ UNCHANGED << fixedVars, chatVars, avatarVars, drawVars, speaking, callVars, rafPending,
                    completions, handlers, elSrc, ctxVars >>

\* The 'ended' event.
Ended ==
    /\ NoMicrotask
    /\ elState = "playing"
    /\ elState' = "ended"
    /\ OnEnded(handlers)
    /\ UNCHANGED << fixedVars, chatVars, avatarVars, pc, playPromise, handlers, elSrc,
                    ctxVars >>

\* The 'error' event: the source cannot be loaded or decoded.  A promise of
\* audioPlayer.play() that is still pending is rejected with it
\* (NotSupportedError).
MediaError ==
    /\ NoMicrotask
    /\ elState \in {"blocked", "buffering", "playing"}
    /\ handlers # 0
    /\ elState' = "failed"
    /\ OnError(handlers)
    /\ playPromise' = [playPromise EXCEPT ![elSrc] =
                          IF @ = "pending" THEN "rejected" ELSE @]
    /\ UNCHANGED << fixedVars, chatVars, avatarVars, pc, handlers, elSrc, ctxVars >>

\* The pending animation-frame callback of call s runs.
Frame(s) ==
    /\ NoMicrotask
    /\ rafPending[s]
    /\ \E sum \in Energies : AnimateLipSync(s, sum)
    /\ UNCHANGED << fixedVars, chatVars, avatarVars, speaking, callVars, playPromise,
                    completions, elemVars, ctxVars >>

\* The .catch() reaction of audioPlayer.play() of call s.
PlayRejected(s) ==
    /\ playPromise[s] = "rejected"
    /\ playPromise' = [playPromise EXCEPT ![s] = "handled"]
    /\ speaking' = FALSE
    /\ promise' = Resolve(promise, s)
    /\ completions' = [completions EXCEPT ![s] = @ \cup {"catch"}]
    /\ UNCHANGED << fixedVars, chatVars, avatarVars, drawVars, pc, url, rafPending, elemVars,
                    ctxVars >>

Next ==
    \/ \E ok \in BOOLEAN : LoadFaceApiModels(ok)
    \/ \E u \in Uploads : UploadChange(u)
    \/ \E u \in Uploads, loaded \in BOOLEAN : ImageSettled(u, loaded)
    \/ \E u \in Uploads : \E face \in {FaceOf(u), NoFace} : FaceDetected(u, face)
    \/ \E s \in Sessions : Play(s)
    \/ \E s \in Sessions : ResumeDone(s)
    \/ PlayEvent
    \/ Playing
    \/ Ended
    \/ MediaError
    \/ \E s \in Sessions : Frame(s)
    \/ \E s \in Sessions : PlayRejected(s)

Spec == Init /\ [][Next]_vars

\* The audio side of the page on its own: playAudioWithLipSync called at any
\* moment on a page where no photo is uploaded.
PlayNext ==
    \/ \E s \in Sessions : Play(s)
    \/ \E s \in Sessions : ResumeDone(s)
    \/ PlayEvent
    \/ Playing
    \/ Ended
    \/ MediaError
    \/ \E s \in Sessions : Frame(s)
    \/ \E s \in Sessions : PlayRejected(s)

PlaySpec == Init /\ [][PlayNext]_vars

\* ------------------------------------------------------------------------
\* drawAvatar and the intensity mapping on their own
\* ------------------------------------------------------------------------
\* The intensities drawAvatar is probed with, 0 to MaxProbe in steps of 0.25,
\* and the band sums a frame is probed with, 0 to 20 * 255.
ProbeIntensities == {250 * k : k \in 0..(4 * MaxProbe)}
ProbeSums ==
    Energies \cup {Cap * EnergyDivisor * BandBins}
        \cup {500 * k : k \in 0..((BandBins * MaxEnergy) \div 500)}

\* drawAvatar(intensity), called with any intensity.
RenderDirect(intensity) ==
    /\ Draw("direct", 0, intensity)
    /\ probePrev' = lastDraw.intensity
    /\ UNCHANGED << variant, chatVars, avatarVars, speaking, callVars, playPromise, rafPending,
                    completions, elemVars, ctxVars >>

\* The body of animateLipSync up to drawAvatar, for any band sum.
RenderSampled(sum) ==
    /\ Draw("loop", sum, SpeakingIntensity(sum))
    /\ probePrev' = lastDraw.intensity
    /\ UNCHANGED << variant, chatVars, avatarVars, speaking, callVars, playPromise, rafPending,
                    completions, elemVars, ctxVars >>

\* The avatar handling of the page, with drawAvatar and the intensity mapping
\* applied at any moment to any input.
RenderNext ==
    \/ \E ok \in BOOLEAN : LoadFaceApiModels(ok)
    \/ \E u \in Uploads : UploadChange(u)
    \/ \E u \in Uploads, loaded \in BOOLEAN : ImageSettled(u, loaded)
    \/ \E u \in Uploads : \E face \in {FaceOf(u), NoFace} : FaceDetected(u, face)
    \/ \E intensity \in ProbeIntensities : RenderDirect(intensity)
    \/ \E sum \in ProbeSums : RenderSampled(sum)

RenderSpec == Init /\ [][RenderNext]_vars

\* What the event loop and the platform guarantee: a queued reaction, a
\* queued event and a requested animation frame are run, a resume() that is
\* awaited completes, and a clip that plays comes
\* to its end.  Nothing obliges anyone to call play() or to upload a photo.
Fairness ==
    /\ WF_vars(PlayEvent)
    /\ WF_vars(Playing)
    /\ WF_vars(Ended)
    /\ \A s \in Sessions : WF_vars(PlayRejected(s))
    /\ \A s \in Sessions : WF_vars(ResumeDone(s))
    /\ \A s \in Sessions : WF_vars(Frame(s))

FairSpec == Init /\ [][Next]_vars /\ Fairness

\* ------------------------------------------------------------------------
\* Chat: the 'submit' handler of chatForm
\* ------------------------------------------------------------------------
\* What the user may have typed: nothing but blanks (trim() leaves ''), or a
\* text.
Messages == {"", "text"}

\* What the backend call comes to: fetch rejects, the status is not OK, or a
\* reply {text} without or with audio_base64.
Failures == {"networkError", "notOk"}
Replies == {"text", "audio"}
Outcomes == Failures \cup Replies

UserEntry(m) == [role |-> "user", content |-> m]
AssistantEntry(m) == [role |-> "assistant", content |-> m]

\* The children addMessage and showTypingIndicator append to chatMessages.
UserMessage(m) == [role |-> "user", kind |-> "text", of |-> m]
TypingIndicator(m) == [role |-> "assistant", kind |-> "typing", of |-> m]
ReplyMessage(m) == [role |-> "assistant", kind |-> "text", of |-> m]
ErrorMessage(m) == [role |-> "assistant", kind |-> "error", of |-> m]

\* typingIndicator.remove(): a no-op when it is removed already.
RemoveTyping(msgs, m) == SelectSeq(msgs, LAMBDA e : e # TypingIndicator(m))

\* The trimming with slice(-19) in place of slice(-20).
TrimHistoryOdd(h) ==
    IF Len(h) > HistoryLimit
    THEN SubSeq(h, Len(h) - HistoryLimit + 2, Len(h))
    ELSE h

\* if (chatHistory.length > 20) chatHistory = chatHistory.slice(-20)
TrimHistory(h) ==
    IF Len(h) > HistoryLimit
    THEN SubSeq(h, Len(h) - HistoryLimit + 1, Len(h))
    ELSE h

\* The handler without its setInputEnabled(false).
SubmitNoDisable(m, message) ==
    /\ NoMicrotask
    /\ inputEnabled
    /\ sub[m] = "idle"
    /\ \A k \in Submissions : k < m => sub[k] # "idle"
    /\ IF message = ""
       THEN UNCHANGED chatVars
       ELSE /\ chatMessages' = chatMessages \o << UserMessage(m), TypingIndicator(m) >>
            /\ sub' = [sub EXCEPT ![m] = "fetching"]
            /\ UNCHANGED << inputEnabled, chatHistory, played >>
    /\ UNCHANGED << fixedVars, avatarVars, drawVars, playVars >>

\* 'submit' of chatForm, up to the await of fetch.  The form is submitted with
\* the send button or with Enter in the message input, which the platform
\* allows only while they are not disabled.
Submit(m, message) ==
    /\ NoMicrotask
    /\ inputEnabled
    /\ sub[m] = "idle"
    /\ \A k \in Submissions : k < m => sub[k] # "idle"
    /\ IF message = ""
       THEN UNCHANGED chatVars
       ELSE /\ chatMessages' = chatMessages \o << UserMessage(m), TypingIndicator(m) >>
            /\ inputEnabled' = FALSE
            /\ sub' = [sub EXCEPT ![m] = "fetching"]
            /\ UNCHANGED << chatHistory, played >>
    /\ UNCHANGED << fixedVars, avatarVars, drawVars, playVars >>

\* The catch block and the finally block of the handler.
CatchAndFinally(m) ==
    /\ chatMessages' = Append(RemoveTyping(chatMessages, m), ErrorMessage(m))
    /\ inputEnabled' = TRUE
    /\ sub' = [sub EXCEPT ![m] = "done"]

\* The handler with the two pushes above the test of response.ok.
FetchSettledPushFirst(m, outcome) ==
    /\ NoMicrotask
    /\ sub[m] = "fetching"
    /\ chatHistory' = TrimHistory(chatHistory \o << UserEntry(m), AssistantEntry(m) >>)
    /\ IF outcome \in Failures
       THEN /\ CatchAndFinally(m)
            /\ UNCHANGED << played, avatarVars, drawVars, playVars >>
       ELSE /\ chatMessages' = Append(RemoveTyping(chatMessages, m), ReplyMessage(m))
            /\ IF outcome = "audio"
               THEN /\ \E s \in Sessions :
                         /\ PlayAudioWithLipSync(s)
                         /\ played' = [played EXCEPT ![m] = s]
                    /\ sub' = [sub EXCEPT ![m] = "awaitPlay"]
                    /\ UNCHANGED inputEnabled
               ELSE /\ inputEnabled' = TRUE
                    /\ sub' = [sub EXCEPT ![m] = "done"]
                    /\ UNCHANGED << played, avatarVars, drawVars, playVars >>
    /\ UNCHANGED fixedVars

\* The backend call settles: the handler from the await of fetch to the await
\* of playAudioWithLipSync, or to its end.
FetchSettled(m, outcome) ==
    /\ NoMicrotask
    /\ sub[m] = "fetching"
    /\ IF outcome \in Failures
       THEN /\ CatchAndFinally(m)
            /\ UNCHANGED << chatHistory, played, avatarVars, drawVars, playVars >>
       ELSE /\ chatMessages' = Append(RemoveTyping(chatMessages, m), ReplyMessage(m))
            /\ chatHistory' =
                  TrimHistory(chatHistory \o << UserEntry(m), AssistantEntry(m) >>)
            /\ IF outcome = "audio"
               THEN /\ \E s \in Sessions :
                         /\ PlayAudioWithLipSync(s)
                         /\ played' = [played EXCEPT ![m] = s]
                    /\ sub' = [sub EXCEPT ![m] = "awaitPlay"]
                    /\ UNCHANGED inputEnabled
               ELSE /\ inputEnabled' = TRUE
                    /\ sub' = [sub EXCEPT ![m] = "done"]
                    /\ UNCHANGED << played, avatarVars, drawVars, playVars >>
    /\ UNCHANGED fixedVars

\* The promise of playAudioWithLipSync is settled: the handler goes on after
\* its await, to the finally block or, when the promise was rejected, through
\* the catch block.
PlaybackAwaited(m) ==
    /\ sub[m] = "awaitPlay"
    /\ promise[played[m]] \in {"resolved", "rejected"}
    /\ IF promise[played[m]] = "rejected"
       THEN CatchAndFinally(m)
       ELSE /\ inputEnabled' = TRUE
            /\ sub' = [sub EXCEPT ![m] = "done"]
            /\ UNCHANGED chatMessages
    /\ UNCHANGED << fixedVars, chatHistory, played, avatarVars, drawVars, playVars >>

\* The page as the user drives it: play() is called by the submit handler only.
ChatNext ==
    \/ \E m \in 1..MaxChats, message \in Messages : Submit(m, message)
    \/ \E m \in 1..MaxChats, outcome \in Outcomes : FetchSettled(m, outcome)
    \/ \E m \in 1..MaxChats : PlaybackAwaited(m)
    \/ \E s \in Sessions : ResumeDone(s)
    \/ PlayEvent
    \/ Playing
    \/ Ended
    \/ MediaError
    \/ \E s \in Sessions : Frame(s)
    \/ \E s \in Sessions : PlayRejected(s)

ChatSpec == Init /\ [][ChatNext]_vars

\* The backend call settles and a settled promise runs its reaction.
ChatFairness ==
    /\ \A m \in Submissions : WF_vars(\E outcome \in Outcomes : FetchSettled(m, outcome))
    /\ \A m \in Submissions : WF_vars(PlaybackAwaited(m))

FairChatSpec == Init /\ [][ChatNext]_vars /\ Fairness /\ ChatFairness

\* The conversation with a backend that replies with text only.
HistoryNext ==
    \/ \E m \in Submissions, message \in Messages : Submit(m, message)
    \/ \E m \in Submissions, outcome \in Outcomes \ {"audio"} : FetchSettled(m, outcome)

HistorySpec == Init /\ [][HistoryNext]_vars

\* ------------------------------------------------------------------------
\* Claims
\* ------------------------------------------------------------------------
\* C1: every call of play() returns a promise that is eventually resolved: it
\* is never rejected and never stays pending for ever, whatever the payload
\* and whatever the platform answers.
C1_PlayAlwaysResolves ==
    \A s \in Sessions :
        /\ [](promise[s] # "rejected")
        /\ (promise[s] = "pending") ~> (promise[s] = "resolved")

\* The animation-frame callbacks that are pending, over all calls of play().
PendingFrames == {s \in Sessions : rafPending[s]}

\* C2: at most one sampling loop exists: in every reachable state at most one
\* animation-frame callback is pending over all calls of play().
C2_AtMostOneLoop == Cardinality(PendingFrames) <= 1

\* C3: of the handlers for 'ended', 'error' and the rejection of
\* audioPlayer.play(), at most one runs the completion of a given call.
C3_CompletesOnce == \A s \in Sessions : Cardinality(completions[s]) <= 1

\* C4: when audioPlayer.play() is rejected, the reaction of the call leaves no
\* animation-frame callback of the call pending, leaves the avatar rendered at
\* intensity 0, and resolves the call's promise.
C4_RejectionStopsAndResets ==
    [][\A s \in Sessions :
          (playPromise[s] = "rejected" /\ playPromise'[s] = "handled")
              => /\ ~rafPending'[s]
                 /\ lastDraw'.intensity = 0
                 /\ promise'[s] = "resolved"]_vars

\* C5: once the promise of a call of play() is resolved, no animation-frame
\* callback of that call is pending.
C5_ResolvedLoopStopped ==
    \A s \in Sessions : promise[s] = "resolved" => ~rafPending[s]

\* C6: from 'ended' until a new session starts, the last render is the
\* drawAvatar(0) of onended (or a redraw at rest): no sampled render follows.
C6_EndedLeavesIdle ==
    elState = "ended" => (lastDraw.src # "loop" /\ lastDraw.intensity = 0)

\* C7: drawAvatar without an avatar or a detection is a no-op: as long as one
\* of them is unset the canvas keeps the bitmap and the size it started with,
\* whatever is rendered, also by the frames of a play() session.
C7_RenderWithoutAvatarIsNoOp ==
    (avatarImage = NoImage \/ faceDetection = NoDetection) => canvas = InitCanvas

\* A session has played to its end with no avatar set: its frames and the
\* drawAvatar(0) of onended have run.
C7_Witness ==
    \E s \in Sessions :
        /\ "ended" \in completions[s]
        /\ promise[s] = "resolved"
        /\ lastDraw.src = "ended"
        /\ avatarImage = NoImage
        /\ canvas = InitCanvas

\* The band sum from which the average energy is at least Cap * EnergyDivisor.
CapSum == Cap * EnergyDivisor * BandBins

AvatarSet == avatarImage # NoImage /\ faceDetection # NoDetection

\* The bitmap of drawAvatar(intensity) on a canvas nothing was drawn on.
Fresh(intensity) ==
    DrawAvatar(variant, InitCanvas, avatarImage, faceDetection, intensity)

IdleCanvas ==
    LET c == Crop(faceDetection)
    IN [width |-> Size, height |-> Size,
        ops |-> << [op |-> "image", img |-> avatarImage,
                    sx |-> c.sx, sy |-> c.sy, sw |-> c.sw, sh |-> c.sh,
                    dx |-> 0, dy |-> 0, dw |-> Milli(Size), dh |-> Milli(Size),
                    alpha |-> 100] >>,
        alpha |-> 100, fill |-> "#000000", saved |-> << >>]

\* C9: after any sequence of renders the canvas is the bitmap of the last
\* intensity alone, the one drawAvatar leaves on a fresh canvas; after
\* drawAvatar(0) it is the idle bitmap.
C9_FullRepaint ==
    (AvatarSet /\ lastDraw.src # "none")
        => /\ canvas = Fresh(lastDraw.intensity)
           /\ lastDraw.intensity = 0 => canvas = IdleCanvas

\* drawAvatar(0) has followed a render above the cap.
C9_Witness ==
    /\ AvatarSet
    /\ lastDraw.src = "direct"
    /\ lastDraw.intensity = 0
    /\ probePrev > Milli(Cap)
    /\ canvas = IdleCanvas

\* C10: an upload that ends with no face detected, or whose image fails to
\* load, leaves avatarImage and faceDetection as they were and draws nothing.
C10_FailedUploadKeepsAvatar ==
    [][\A u \in Uploads :
          (up[u] # up'[u] /\ up'[u] \in {"noFace", "loadError"})
              => UNCHANGED << avatarImage, faceDetection, canvas, lastDraw >>]_vars

\* An earlier upload has configured the pair, a later one found no face, and
\* the pair of the earlier one is still in place.
C10_Witness ==
    \E u, v \in Uploads :
        /\ u < v
        /\ up[u] = "done"
        /\ up[v] = "noFace"
        /\ avatarImage = u
        /\ faceDetection = Detection(u, FaceOf(u))

\* C11: avatarImage and faceDetection are both unset or both come from the same
\* successful upload, the canvas never shows an image other than the current
\* pair's, and once a later upload has succeeded the pair of an earlier upload
\* is not the one in place (and so is not drawn) any more.
C11_PairFromNewestUpload ==
    /\ (avatarImage = NoImage) <=> (faceDetection = NoDetection)
    /\ avatarImage # NoImage => faceDetection.img = avatarImage
    /\ \A i \in 1..Len(canvas.ops) :
          canvas.ops[i].op = "image" => canvas.ops[i].img = avatarImage
    /\ \A u, v \in Uploads : (u < v /\ up[v] = "done") => avatarImage # u

\* The element e is a child of chatMessages.
Shown(e) == \E i \in 1..Len(chatMessages) : chatMessages[i] = e

\* C12: after a successful chat response a playback failure adds no error
\* message: the conversation never holds both the reply to a submission and an
\* error message for it, and once its handler is over it holds the user
\* message and the reply, with no typing indicator left.
C12_PlaybackFailureIsSilent ==
    \A m \in Submissions :
        Shown(ReplyMessage(m))
            => /\ ~Shown(ErrorMessage(m))
               /\ sub[m] = "done"
                     => (Shown(UserMessage(m)) /\ ~Shown(TypingIndicator(m)))

\* The error messages among the children of chatMessages.
ErrorCount(msgs) == Len(SelectSeq(msgs, LAMBDA e : e.kind = "error"))

\* C13: when the backend call of a submission fails, its handler adds exactly
\* one assistant-style error message, leaves chatHistory as it was, and
\* neither starts nor alters a playback session.
C13_BackendFailureAddsOneError ==
    [][\A m \in Submissions :
          (sub[m] = "fetching" /\ sub'[m] = "done" /\ ~Shown(ReplyMessage(m))')
              => /\ ErrorCount(chatMessages') = ErrorCount(chatMessages) + 1
                 /\ Shown(ErrorMessage(m))'
                 /\ Len(chatMessages') = Len(chatMessages)
                 /\ chatHistory' = chatHistory
                 /\ UNCHANGED << playVars, drawVars >>]_vars

\* An exchange with audio has been played, and the backend call of a later
\* submission has failed: its error message is shown, the history still holds
\* the first exchange only.
C13_Witness ==
    \E k, m \in Submissions :
        /\ k < m
        /\ played[k] # 0
        /\ elSrc = played[k]
        /\ sub[m] = "done"
        /\ Shown(ErrorMessage(m))
        /\ ~Shown(ReplyMessage(m))
        /\ chatHistory = << UserEntry(k), AssistantEntry(k) >>

\* C14: the intensity a frame of the sampling loop passes to drawAvatar is
\* min(avg / 50, 2) for the average avg of the BandBins bytes read in that
\* frame: it lies in [0, 2], is 2 exactly when avg >= 100, is 0 when all bins
\* are 0, and is fixed by the bytes of the frame alone.
C14_IntensityFromFrameAlone ==
    lastDraw.src = "loop"
        => /\ lastDraw.intensity >= 0
           /\ lastDraw.intensity <= Milli(Cap)
           /\ lastDraw.intensity * BandBins * EnergyDivisor
                 = Milli(Min(lastDraw.sum, CapSum))
           /\ (lastDraw.intensity = Milli(Cap)) <=> (lastDraw.sum >= CapSum)
           /\ lastDraw.sum = 0 => lastDraw.intensity = 0

\* A frame below the cap has followed a render at the cap.
C14_Witness ==
    /\ lastDraw.src = "loop"
    /\ lastDraw.sum = 1500
    /\ lastDraw.intensity = 1500
    /\ probePrev = Milli(Cap)

\* C15: from the 'play' event of a session until its 'ended' or 'error' the
\* sampling loop runs: the session's animation-frame callback is pending, every
\* iteration of a loop leaves its next callback pending whatever energy it
\* sampled, and a pending callback goes away only with the cancelAnimationFrame
\* of onended or onerror.
C15_LoopRunsUntilCancelled ==
    /\ [](elState \in {"buffering", "playing"} => rafPending[handlers])
    /\ [][\A s \in Sessions : Frame(s) => rafPending'[s]]_vars
    /\ [][\A s \in Sessions :
             (rafPending[s] /\ ~rafPending'[s])
                 => /\ completions'[s] # completions[s]
                    /\ completions'[s] \ completions[s] \subseteq {"ended", "error"}]_vars

\* The clip plays, the last frame sampled silence and the next one is pending.
C15_Witness ==
    /\ elState = "playing"
    /\ lastDraw.src = "loop"
    /\ lastDraw.sum = 0
    /\ rafPending[handlers]

\* C16: a suspended audio context is resumed before the new source is assigned
\* to the audio element and before playback is requested: whenever the URL of
\* a call is the element's source, or the call has requested playback, the
\* context the element feeds is running.
C16_ResumeBeforeSource ==
    \A s \in Sessions : (elSrc = s \/ pc[s] = "started") => ctxState = "running"

\* C17: after any sequence of calls of play() at most one audio graph is live:
\* at most one audio context, one analyser and one media-element source have
\* been created and not released.
C17_OneLiveGraph ==
    /\ graph.contexts <= 1
    /\ graph.analysers <= 1
    /\ graph.sources <= 1

\* C18: whenever the promise of a call of play() is resolved, the object URL
\* the call created has been revoked.
C18_ResolvedUrlRevoked ==
    \A s \in Sessions : promise[s] = "resolved" => url[s] = "revoked"

\* The submissions whose reply has been shown.
Answered == {m \in Submissions : Shown(ReplyMessage(m))}

\* C19: chatHistory has an even length of at most HistoryLimit, alternates user
\* and assistant entries starting with a user entry, each user entry followed
\* by the reply to it, in the order of the exchanges with the most recent one
\* last; and it changes only when a backend call succeeds, by gaining that
\* exchange's user entry and assistant entry at its end.
C19_HistoryWellFormed ==
    /\ [](/\ Len(chatHistory) % 2 = 0
          /\ Len(chatHistory) <= HistoryLimit
          /\ \A i \in 1..Len(chatHistory) :
                chatHistory[i].role = IF i % 2 = 1 THEN "user" ELSE "assistant"
          /\ \A i \in 1..Len(chatHistory) :
                i % 2 = 1 => chatHistory[i + 1].content = chatHistory[i].content
          /\ \A i, j \in 1..Len(chatHistory) :
                i < j => chatHistory[i].content <= chatHistory[j].content
          /\ Answered # {}
                => /\ chatHistory # << >>
                   /\ \A m \in Answered : m <= chatHistory[Len(chatHistory)].content)
    /\ [][chatHistory' # chatHistory
             => \E m \in Submissions :
                   /\ sub[m] = "fetching"
                   /\ Shown(ReplyMessage(m))'
                   /\ Len(chatHistory') >= 2
                   /\ chatHistory'[Len(chatHistory') - 1] = UserEntry(m)
                   /\ chatHistory'[Len(chatHistory')] = AssistantEntry(m)
                   /\ SubSeq(chatHistory', 1, Len(chatHistory') - 2)
                         = SubSeq(chatHistory,
                                  Len(chatHistory) - Len(chatHistory') + 3,
                                  Len(chatHistory))]_vars

\* More than HistoryLimit / 2 exchanges have succeeded: the oldest one has been
\* dropped and the history is at its limit.
C19_Witness ==
    /\ Len(chatHistory) = HistoryLimit
    /\ Shown(ReplyMessage(1))
    /\ chatHistory[1] = UserEntry(2)
    /\ chatHistory[HistoryLimit] = AssistantEntry(HistoryLimit \div 2 + 1)

\* C20: every chat submission that disables the input eventually re-enables
\* it: whenever messageInput and sendButton are disabled, they are enabled
\* again later, whatever the response and whatever the audio payload.
C20_InputReEnabled == (~inputEnabled) ~> inputEnabled

\* The submissions whose handler waits for the backend or for the playback.
InFlight == {m \in Submissions : sub[m] \in {"fetching", "awaitPlay"}}

\* C21: the chat input is disabled from the moment a submission is accepted
\* until its backend call and its playback are over: while a submission is in
\* flight the input is disabled, at most one submission is in flight, and
\* playAudioWithLipSync is never called while the promise of an earlier call
\* is still pending.
C21_OneSubmissionInFlight ==
    /\ [](InFlight # {} => ~inputEnabled)
    /\ [](Cardinality(InFlight) <= 1)
    /\ [][\A s \in Sessions :
             (pc[s] = "new" /\ pc'[s] # "new")
                 => \A r \in Sessions : r # s => promise[r] # "pending"]_vars

\* The playback of an earlier submission is over and a later submission waits
\* for its own, with the input disabled.
C21_Witness ==
    \E k, m \in Submissions :
        /\ k < m
        /\ played[k] # 0
        /\ promise[played[k]] = "resolved"
        /\ sub[k] = "done"
        /\ sub[m] = "awaitPlay"
        /\ played[m] # 0
        /\ promise[played[m]] = "pending"
        /\ ~inputEnabled

====
